---- MODULE Spec2Model ----
(***************************************************************************)
(* Console RPG (src/src/main.py): the characters and their damage          *)
(* resolution, the event bus, the turn-based combat engine and the menu    *)
(* flow state machine driven by GameContext.run.                           *)
(*                                                                         *)
(* Strings that pass through ConsoleIn.read (menu choices, the player's    *)
(* name) are sequences of one-character strings, so that strip() and       *)
(* lower() are computed; character names are the same kind of value.       *)
(***************************************************************************)
EXTENDS Integers, Sequences, FiniteSets, TLC

VARIABLES
  state,            \* GameContext.state: the flow state, "None" for None
  player,           \* GameContext.player: a character, or NoCharacter
  enemy,            \* GameContext.enemy: a character, or NoCharacter
  turn_based_game,  \* GameContext.turn_based_game is not None
  outcome,          \* GameContext.outcome: "None", "win" or "lose"
  pc,               \* position of the control flow inside GameContext.run
  published,        \* events handed to EventBus.publish by the last step, in order
  written,          \* lines handed to outDevice.write by the last step, in order
  read,             \* values returned by inDevice.read during the last step
  call,             \* arguments of the last Character.take_damage call
  hist,             \* what the bus carried since the last Game.start
  built,            \* health each character was constructed with
  subscribers,      \* EventBus._subscribers: the observers, in subscription order
  notified,         \* notify calls made by the last step: observer and event, in order
  stats,            \* identity of the Stats object each character owns, 0 for none
  invoked           \* the operation the last step performed, and what it raised

vars == <<state, player, enemy, turn_based_game, outcome, pc,
          published, written, read, call, hist, built,
          subscribers, notified, stats, invoked>>

-----------------------------------------------------------------------------
(* Bounds of the model *)

\* largest raw amount a direct take_damage call is given
MaxAmount == 17
\* number of direct take_damage / attack_target calls on a pair of characters
MaxCalls == 3

-----------------------------------------------------------------------------
(* Text *)

Max(a, b) == IF a >= b THEN a ELSE b

\* str.lower on the characters the modelled keyboard can produce
LowerChar(c) ==
  CASE c = "A" -> "a"
    [] c = "G" -> "g"
    [] OTHER -> c

Lower(s) == [i \in 1..Len(s) |-> LowerChar(s[i])]

RECURSIVE LStrip(_)
LStrip(s) ==
  IF s = <<>> THEN s
  ELSE IF Head(s) = " " THEN LStrip(Tail(s)) ELSE s

RECURSIVE RStrip(_)
RStrip(s) ==
  IF s = <<>> THEN s
  ELSE IF s[Len(s)] = " " THEN RStrip(SubSeq(s, 1, Len(s) - 1)) ELSE s

Strip(s) == RStrip(LStrip(s))

\* ConsoleIn.read: input(prompt).strip().lower()
ConsoleRead(raw) == Lower(Strip(raw))

\* lines the user may type at a menu prompt
MenuLines ==
  { <<"1">>, <<" ", "1">>, <<"2">>, <<"2", " ">>, <<"3">>, <<"A">>, <<>> }

\* lines the user may type at the name prompt
NameLines ==
  { <<"G", "o", "b", "l", "i", "n">>, <<" ", "A", "l">> }

-----------------------------------------------------------------------------
(* Event types *)

EnemyTypes == { "goblin", "soldier", "skeleton", "dragon" }

AttackStartedEvent(attacker, target) ==
  [type |-> "AttackStartedEvent", attacker |-> attacker, target |-> target]

DamageTakenEvent(name, damage, remaining_hp) ==
  [type |-> "DamageTakenEvent", name |-> name, damage |-> damage,
   remaining_hp |-> remaining_hp]

CharacterDied(name) == [type |-> "CharacterDied", name |-> name]

WelcomeEvent(game_name) == [type |-> "WelcomeEvent", game_name |-> game_name]

-----------------------------------------------------------------------------
(* Output: the console observer subscribed in main() *)

Line(text) == [line |-> text, event |-> <<>>]

\* IOObserver.notify: the writes of the ConsoleIOManager message for the event
Notify(event) ==
  CASE event.type = "AttackStartedEvent" ->
         << [line |-> "attack_message", event |-> <<event>>] >>
    [] event.type = "DamageTakenEvent" ->
         << [line |-> "take_damage_message", event |-> <<event>>] >>
    [] event.type = "CharacterDied" ->
         << [line |-> "character_died_message", event |-> <<event>>] >>
    [] event.type = "WelcomeEvent" ->
         << Line("====="),
            [line |-> "welcome_message", event |-> <<event>>],
            Line("=====") >>
    [] OTHER -> <<>>

\* the observer main() subscribes
IOObserver == "io_observer"

\* the observers a bus may be given
Observers == { IOObserver, "recorder" }

\* EventBus.publish of one event: the notify calls, in the order of the loop
PublishOnce(subs, event) ==
  [j \in 1..Len(subs) |-> [observer |-> subs[j], event |-> event]]

\* a bus that queues the events of a call and hands each subscriber the whole queue
RECURSIVE PublishQueued(_, _)
PublishQueued(subs, events) ==
  IF subs = <<>> THEN <<>>
  ELSE [i \in 1..Len(events) |-> [observer |-> Head(subs), event |-> events[i]]]
       \o PublishQueued(Tail(subs), events)

\* EventBus.publish for each event of a sequence in turn: every notify call of
\* one publish is made before the next event is published
RECURSIVE Publish(_, _)
Publish(subs, events) ==
  IF events = <<>> THEN <<>>
  ELSE PublishOnce(subs, Head(events)) \o Publish(subs, Tail(events))

\* the lines the console observer writes for the notify calls it receives
RECURSIVE Writes(_)
Writes(calls) ==
  IF calls = <<>> THEN <<>>
  ELSE (IF Head(calls).observer = IOObserver THEN Notify(Head(calls).event) ELSE <<>>)
       \o Writes(Tail(calls))

-----------------------------------------------------------------------------
(* Stats *)

\* a setter that stores the value as given
HpSetterUnclamped(value) == value

\* Stats.hp setter
HpSetter(value) == IF value < 0 THEN 0 ELSE value

\* Stats.__init__: the three private fields are stored as they are given
Stats(hp, attack, defense) == [hp |-> hp, attack |-> attack, defense |-> defense]

\* Stats.attack setter: the fields afterwards and what the call raised
AttackSetter(c, value) ==
  IF value < 0 THEN [char |-> c, raised |-> "ValueError"]
  ELSE [char |-> [c EXCEPT !.attack = value], raised |-> "None"]

\* Stats.defense setter: the fields afterwards and what the call raised
DefenseSetter(c, value) ==
  IF value < 0 THEN [char |-> c, raised |-> "ValueError"]
  ELSE [char |-> [c EXCEPT !.defense = value], raised |-> "None"]

\* an is_dead that asks for a health below 0
IsDeadStrict(c) == c.hp < 0

\* Stats.is_dead
IsDead(c) == c.hp <= 0

\* Stats.is_alive
IsAlive(c) == c.hp > 0

-----------------------------------------------------------------------------
(* Characters *)

NoCharacter == [cls |-> "None"]

GoblinName == <<"G", "o", "b", "l", "i", "n">>
SoldierName == <<"S", "o", "l", "d", "i", "e", "r">>
SkeletonName == <<"S", "k", "e", "l", "e", "t", "o", "n">>
DragonName == <<"D", "r", "a", "g", "o", "n">>

\* a player preset whose defense no enemy attack exceeds
CreatePlayerArmoured(name) ==
  [cls |-> "Player", name |-> name, hp |-> 100, attack |-> 10, defense |-> 50]

\* CharacterFactory.create_player
CreatePlayer(name) ==
  [cls |-> "Player", name |-> name, hp |-> 100, attack |-> 10, defense |-> 5]

\* an enemy preset with a Soldier of attack 9
CreateEnemyStrongSoldier(enemy_type) ==
  CASE enemy_type = "goblin" ->
         [cls |-> "Enemy", name |-> GoblinName, hp |-> 40, attack |-> 6, defense |-> 3]
    [] enemy_type = "soldier" ->
         [cls |-> "Enemy", name |-> SoldierName, hp |-> 60, attack |-> 9, defense |-> 5]
    [] enemy_type = "skeleton" ->
         [cls |-> "Enemy", name |-> SkeletonName, hp |-> 30, attack |-> 10, defense |-> 2]
    [] enemy_type = "dragon" ->
         [cls |-> "Enemy", name |-> DragonName, hp |-> 80, attack |-> 20, defense |-> 10]

\* CharacterFactory.create_enemy
CreateEnemy(enemy_type) ==
  CASE enemy_type = "goblin" ->
         [cls |-> "Enemy", name |-> GoblinName, hp |-> 40, attack |-> 6, defense |-> 3]
    [] enemy_type = "soldier" ->
         [cls |-> "Enemy", name |-> SoldierName, hp |-> 60, attack |-> 8, defense |-> 5]
    [] enemy_type = "skeleton" ->
         [cls |-> "Enemy", name |-> SkeletonName, hp |-> 30, attack |-> 10, defense |-> 2]
    [] enemy_type = "dragon" ->
         [cls |-> "Enemy", name |-> DragonName, hp |-> 80, attack |-> 20, defense |-> 10]

\* random.randint(-2, 2)
Offsets == -2..2

\* BasicAttackStrategy.calculate_damage, for one draw of the random offset
CalculateDamage(base_attack, offset) == base_attack + offset

\* the defense subtracted without the floor at 0
MitigateNoFloor(amount, defense) == amount - defense

\* Character.take_damage, first line: the damage left after defense
Mitigate(amount, defense) == Max(0, amount - defense)

\* Character.take_damage: the character afterwards and the events published
TakeDamage(c, amount) ==
  LET damage == Mitigate(amount, c.defense)
      after == [c EXCEPT !.hp = HpSetter(c.hp - damage)]
  IN [char |-> after,
      events |-> << DamageTakenEvent(c.name, damage, after.hp) >>
                 \o (IF IsDead(after) THEN << CharacterDied(c.name) >> ELSE <<>>),
      taken |-> << [amount |-> amount, hp_before |-> c.hp] >>]

\* attack_target without the check that the attacker is alive
AttackTargetUnguarded(attacker, target, offset) ==
  LET damage_amount == CalculateDamage(attacker.attack, offset)
      hit == TakeDamage(target, damage_amount)
  IN [char |-> hit.char,
      events |-> << AttackStartedEvent(attacker.name, target.name) >>
                 \o hit.events,
      taken |-> hit.taken]

\* Character.attack_target: the target afterwards and the events published
AttackTarget(attacker, target, offset) ==
  IF ~IsAlive(attacker)
  THEN [char |-> target, events |-> <<>>, taken |-> <<>>]
  ELSE LET damage_amount == CalculateDamage(attacker.attack, offset)
           hit == TakeDamage(target, damage_amount)
       IN [char |-> hit.char,
           events |-> << AttackStartedEvent(attacker.name, target.name) >>
                      \o hit.events,
           taken |-> hit.taken]

-----------------------------------------------------------------------------
(* What the event bus carried since the last Game.start *)

Other(role) == IF role = "player" THEN "enemy" ELSE "player"

NoHistory ==
  [welcome |-> 0,
   died |-> [player |-> 0, enemy |-> 0],
   last_attacker |-> <<>>,
   calls |-> 0]

\* the history after one more published event, whose target is the character `role`
Record(h, event, role) ==
  CASE event.type = "WelcomeEvent" ->
         [h EXCEPT !.welcome = @ + 1]
    [] event.type = "AttackStartedEvent" ->
         [h EXCEPT !.last_attacker = << event.attacker >>]
    [] event.type = "CharacterDied" ->
         [h EXCEPT !.died[role] = @ + 1]
    [] OTHER -> h

RECURSIVE Observe(_, _, _)
Observe(h, events, role) ==
  IF events = <<>> THEN h
  ELSE Observe(Record(h, Head(events), role), Tail(events), role)

\* the take_damage calls of a step, each with the character that took it
Taken(taken, role) ==
  [i \in 1..Len(taken) |->
     [target |-> role, amount |-> taken[i].amount, hp_before |-> taken[i].hp_before]]

-----------------------------------------------------------------------------
(* Game flow: the state handlers *)

\* a main menu that leaves the game on an unknown choice
MainMenuStateLeaves(choice) ==
  LET menu == << Line("==== MAIN MENU ===="), Line("1. New Game"), Line("2. Exit") >>
  IN IF choice = <<"1">>
     THEN [next |-> "CharacterCreation", lines |-> menu]
     ELSE [next |-> "Exit", lines |-> menu]

\* MainMenuState.run after the choice is read: the next state and the writes
MainMenuState(choice) ==
  LET menu == << Line("==== MAIN MENU ===="), Line("1. New Game"), Line("2. Exit") >>
  IN IF choice = <<"1">>
     THEN [next |-> "CharacterCreation", lines |-> menu]
     ELSE IF choice = <<"2">>
     THEN [next |-> "Exit", lines |-> menu]
     ELSE [next |-> "MainMenu",
           lines |-> menu \o << Line("invalid choice, try again!") >>]

\* GameOverState.run: the writes before the prompt
GameOverLines(result) ==
  << Line("==== Game Over ====") >>
  \o (IF result = "win" THEN << Line("You won!") >>
      ELSE IF result = "lose" THEN << Line("You lose!") >>
      ELSE <<>>)
  \o << Line("1. back to main menu"), Line("2. Exit") >>

\* a game-over screen whose choice "1" starts a new game at once
GameOverStateRestarts(choice) ==
  IF choice = <<"1">> THEN "CharacterCreation" ELSE "Exit"

\* GameOverState.run after the choice is read: the next state
GameOverState(choice) ==
  IF choice = <<"1">> THEN "MainMenu" ELSE "Exit"

\* a start that publishes nothing before play()
GameStartSilent == <<>>

\* Game.start before play(): the events published
GameStart == << WelcomeEvent("Hot RPG") >>

\* a loop that goes on for as long as the player is alive
LoopConditionPlayerOnly(p, e) == IsAlive(p)

\* TurnBasedGame.play: the condition of the while loop
LoopCondition(p, e) == IsAlive(p) /\ IsAlive(e)

\* an outcome that does not look at the player
OutcomeAlwaysWin(p) == "win"

\* PlayState.run after the engine returned: the outcome
Outcome(p) ==
  IF p # NoCharacter /\ IsAlive(p) THEN "win" ELSE "lose"

\* the ExitGameState whose run goes back to the main menu
ExitGameStateReturns == "MainMenu"

\* ExitGameState.run: the state it sets, None
ExitGameState == "None"

\* GameContext.run: the condition of the while loop
RunCondition(s) == s # "None"

\* an allocation that hands out one module-wide object
NewObjectShared(live) == 1

\* the identity of a newly constructed object: one that no live object has
NewObject(live) == CHOOSE id \in 1..(Cardinality(live) + 1) : id \notin live

\* the operation a step performed, when it returned normally
Did(op, self, args) == [op |-> op, self |-> self, args |-> args, raised |-> "None"]

\* a step that publishes nothing
Quiet ==
  /\ published' = <<>>
  /\ notified' = <<>>
  /\ call' = <<>>
  /\ UNCHANGED subscribers

\* a step that publishes `events` on the bus, in order
Carried(events) ==
  /\ published' = events
  /\ notified' = Publish(subscribers, events)
  /\ written' = Writes(notified')
  /\ UNCHANGED subscribers

Init ==
  /\ state = "MainMenu"
  /\ player = NoCharacter
  /\ enemy = NoCharacter
  /\ turn_based_game = FALSE
  /\ outcome = "None"
  /\ pc = "run"
  /\ published = <<>>
  /\ written = <<>>
  /\ read = <<>>
  /\ call = <<>>
  /\ hist = NoHistory
  /\ built = [player |-> 0, enemy |-> 0]
  /\ subscribers = << IOObserver >>
  /\ notified = <<>>
  /\ stats = [player |-> 0, enemy |-> 0]
  /\ invoked = Did("main", "None", <<>>)

MainMenuRun ==
  /\ pc = "run"
  /\ RunCondition(state)
  /\ state = "MainMenu"
  /\ \E raw \in MenuLines :
       LET choice == ConsoleRead(raw)
           handled == MainMenuState(choice)
       IN /\ read' = << choice >>
          /\ written' = handled.lines
          /\ state' = handled.next
  /\ Quiet
  /\ invoked' = Did("MainMenuState.run", "None", <<>>)
  /\ UNCHANGED <<player, enemy, turn_based_game, outcome, pc, hist, built, stats>>

\* a character creation that keeps the enemy of the playthrough before
CharacterCreationRunKeepsEnemy ==
  /\ pc = "run"
  /\ RunCondition(state)
  /\ state = "CharacterCreation"
  /\ \E raw \in NameLines, enemy_type \in EnemyTypes :
       LET name == ConsoleRead(raw)
       IN /\ read' = << name >>
          /\ player' = CreatePlayer(name)
          /\ enemy' = IF enemy = NoCharacter THEN CreateEnemy(enemy_type) ELSE enemy
          /\ built' = [player |-> player'.hp, enemy |-> enemy'.hp]
  /\ \E p \in { NewObject({stats.player, stats.enemy}) } :
       stats' = [player |-> p,
                 enemy |-> IF enemy = NoCharacter
                           THEN NewObject({stats.player, stats.enemy, p})
                           ELSE stats.enemy]
  /\ turn_based_game' = TRUE
  /\ state' = "Play"
  /\ written' = <<>>
  /\ Quiet
  /\ invoked' = Did("CharacterCreationState.run", "None", <<>>)
  /\ UNCHANGED <<outcome, pc, hist>>

\* CharacterCreationState.run: the Stats of the new player is constructed while
\* the context still holds the characters of the playthrough before, the Stats
\* of the new enemy while the engine of the playthrough before still holds its player
CharacterCreationRun ==
  /\ pc = "run"
  /\ RunCondition(state)
  /\ state = "CharacterCreation"
  /\ \E raw \in NameLines, enemy_type \in EnemyTypes :
       LET name == ConsoleRead(raw)
       IN /\ read' = << name >>
          /\ player' = CreatePlayer(name)
          /\ enemy' = CreateEnemy(enemy_type)
          /\ built' = [player |-> player'.hp, enemy |-> enemy'.hp]
  /\ \E p \in { NewObject({stats.player, stats.enemy}) } :
       stats' = [player |-> p, enemy |-> NewObject({stats.player, stats.enemy, p})]
  /\ turn_based_game' = TRUE
  /\ state' = "Play"
  /\ written' = <<>>
  /\ Quiet
  /\ invoked' = Did("CharacterCreationState.run", "None", <<>>)
  /\ UNCHANGED <<outcome, pc, hist>>

\* PlayState.run up to the first check of the engine's loop
PlayStart ==
  /\ pc = "run"
  /\ RunCondition(state)
  /\ state = "Play"
  /\ IF turn_based_game
     THEN /\ Carried(GameStart)
          /\ hist' = Observe(NoHistory, GameStart, "player")
          /\ pc' = "loop"
          /\ state' = state
          /\ invoked' = Did("Game.start", "None", <<>>)
     ELSE /\ published' = <<>>
          /\ notified' = <<>>
          /\ written' = << Line("Error: No game instance found. Returning to main menu.") >>
          /\ hist' = hist
          /\ pc' = "after"
          /\ state' = "MainMenu"
          /\ invoked' = Did("PlayState.run", "None", <<>>)
          /\ UNCHANGED subscribers
  /\ read' = <<>>
  /\ call' = <<>>
  /\ UNCHANGED <<player, enemy, turn_based_game, outcome, built, stats>>

\* TurnBasedGame.play: one evaluation of the while condition
PlayLoop ==
  /\ pc = "loop"
  /\ pc' = IF LoopCondition(player, enemy) THEN "player_turn" ELSE "after"
  /\ written' = <<>>
  /\ read' = <<>>
  /\ Quiet
  /\ invoked' = Did("TurnBasedGame.play", "None", <<>>)
  /\ UNCHANGED <<state, player, enemy, turn_based_game, outcome, hist, built, stats>>

\* TurnBasedGame.player_turn, the random offset drawn from `offsets`
\* (the attack is evaluated once and its result bound to res)
PlayerTurn(offsets) ==
  /\ pc = "player_turn"
  /\ \E offset \in offsets :
       \E res \in { AttackTarget(player, enemy, offset) } :
          /\ enemy' = res.char
          /\ Carried(res.events)
          /\ call' = Taken(res.taken, "enemy")
          /\ hist' = Observe(hist, res.events, "enemy")
  /\ pc' = "enemy_turn"
  /\ read' = <<>>
  /\ invoked' = Did("attack_target", "player", <<>>)
  /\ UNCHANGED <<state, player, turn_based_game, outcome, built, stats>>

\* TurnBasedGame.enemy_turn, the random offset drawn from `offsets`
EnemyTurn(offsets) ==
  /\ pc = "enemy_turn"
  /\ \E offset \in offsets :
       \E res \in { AttackTarget(enemy, player, offset) } :
          /\ player' = res.char
          /\ Carried(res.events)
          /\ call' = Taken(res.taken, "player")
          /\ hist' = Observe(hist, res.events, "player")
  /\ pc' = "loop"
  /\ read' = <<>>
  /\ invoked' = Did("attack_target", "enemy", <<>>)
  /\ UNCHANGED <<state, enemy, turn_based_game, outcome, built, stats>>

\* PlayState.run after the engine returned
PlayFinish ==
  /\ pc = "after"
  /\ outcome' = Outcome(player)
  /\ state' = "GameOver"
  /\ pc' = "run"
  /\ written' = <<>>
  /\ read' = <<>>
  /\ Quiet
  /\ invoked' = Did("PlayState.run", "None", <<>>)
  /\ UNCHANGED <<player, enemy, turn_based_game, hist, built, stats>>

GameOverRun ==
  /\ pc = "run"
  /\ RunCondition(state)
  /\ state = "GameOver"
  /\ written' = GameOverLines(outcome)
  /\ \E raw \in MenuLines :
       LET choice == ConsoleRead(raw)
       IN /\ read' = << choice >>
          /\ state' = GameOverState(choice)
  /\ Quiet
  /\ invoked' = Did("GameOverState.run", "None", <<>>)
  /\ UNCHANGED <<player, enemy, turn_based_game, outcome, pc, hist, built, stats>>

ExitRun ==
  /\ pc = "run"
  /\ RunCondition(state)
  /\ state = "Exit"
  /\ written' = << Line("Goodbye!") >>
  /\ state' = ExitGameState
  /\ read' = <<>>
  /\ Quiet
  /\ invoked' = Did("ExitGameState.run", "None", <<>>)
  /\ UNCHANGED <<player, enemy, turn_based_game, outcome, pc, hist, built, stats>>

\* GameContext.run: the loop ends when the state is None
RunReturn ==
  /\ pc = "run"
  /\ ~RunCondition(state)
  /\ pc' = "returned"
  /\ written' = <<>>
  /\ read' = <<>>
  /\ Quiet
  /\ invoked' = Did("GameContext.run", "None", <<>>)
  /\ UNCHANGED <<state, player, enemy, turn_based_game, outcome, hist, built, stats>>

\* the steps of PlayState.run, which wait for no input
Engine ==
  \/ PlayStart
  \/ PlayLoop
  \/ PlayerTurn(Offsets)
  \/ EnemyTurn(Offsets)
  \/ PlayFinish

Next ==
  \/ MainMenuRun
  \/ CharacterCreationRun
  \/ PlayStart
  \/ PlayLoop
  \/ PlayerTurn(Offsets)
  \/ EnemyTurn(Offsets)
  \/ PlayFinish
  \/ GameOverRun
  \/ ExitRun
  \/ RunReturn

Spec == Init /\ [][Next]_vars

\* the program never stops in the middle of PlayState.run: it waits only for input
FairSpec == Init /\ [][Next]_vars /\ WF_vars(Engine)

-----------------------------------------------------------------------------
(* The same program with the random source fixed to return 0 *)

FixedNext ==
  \/ MainMenuRun
  \/ CharacterCreationRun
  \/ PlayStart
  \/ PlayLoop
  \/ PlayerTurn({0})
  \/ EnemyTurn({0})
  \/ PlayFinish
  \/ GameOverRun
  \/ ExitRun
  \/ RunReturn

FixedSpec == Init /\ [][FixedNext]_vars

-----------------------------------------------------------------------------
(* Characters driven directly: take_damage and attack_target called in any *)
(* order on a player and an enemy fresh from the factory                   *)

Roles == { "player", "enemy" }

UnitInit ==
  /\ state = "None"
  /\ player = CreatePlayer(ConsoleRead(<<" ", "A", "l">>))
  /\ \E enemy_type \in EnemyTypes : enemy = CreateEnemy(enemy_type)
  /\ turn_based_game = FALSE
  /\ outcome = "None"
  /\ pc = "unit"
  /\ published = <<>>
  /\ written = <<>>
  /\ read = <<>>
  /\ call = <<>>
  /\ hist = NoHistory
  /\ built = [player |-> player.hp, enemy |-> enemy.hp]
  /\ subscribers = << IOObserver >>
  /\ notified = <<>>
  /\ \E p \in { NewObject({}) } : stats = [player |-> p, enemy |-> NewObject({p})]
  /\ invoked = Did("CharacterFactory", "None", <<>>)

\* the effect of a call on the character `role`, given the call's result
Applied(res, role) ==
  /\ player' = IF role = "player" THEN res.char ELSE player
  /\ enemy' = IF role = "enemy" THEN res.char ELSE enemy
  /\ Carried(res.events)
  /\ call' = Taken(res.taken, role)
  /\ hist' = [Observe(hist, res.events, role) EXCEPT !.calls = @ + 1]

UnitTakeDamage ==
  /\ pc = "unit"
  /\ hist.calls < MaxCalls
  /\ \E role \in Roles, amount \in 0..MaxAmount :
       \E res \in { TakeDamage(IF role = "player" THEN player ELSE enemy, amount) } :
          /\ Applied(res, role)
          /\ invoked' = Did("take_damage", role, << amount >>)
  /\ UNCHANGED <<state, turn_based_game, outcome, pc, read, built, stats>>

\* attack_target on the character `role`, by the other character
UnitAttackTarget ==
  /\ pc = "unit"
  /\ hist.calls < MaxCalls
  /\ \E role \in Roles, offset \in Offsets :
       \E res \in { IF role = "player"
                     THEN AttackTarget(enemy, player, offset)
                     ELSE AttackTarget(player, enemy, offset) } :
          /\ Applied(res, role)
          /\ invoked' = Did("attack_target", Other(role), <<>>)
  /\ UNCHANGED <<state, turn_based_game, outcome, pc, read, built, stats>>

UnitNext ==
  \/ UnitTakeDamage
  \/ UnitAttackTarget

UnitSpec == UnitInit /\ [][UnitNext]_vars

-----------------------------------------------------------------------------
(* The event bus driven directly: observers subscribe at any time, each    *)
(* once as in main(), while attack_target calls publish on the bus         *)

Range(seq) == { seq[i] : i \in DOMAIN seq }

BusInit ==
  /\ state = "None"
  /\ player = CreatePlayer(ConsoleRead(<<" ", "A", "l">>))
  /\ \E enemy_type \in EnemyTypes : enemy = CreateEnemy(enemy_type)
  /\ turn_based_game = FALSE
  /\ outcome = "None"
  /\ pc = "unit"
  /\ published = <<>>
  /\ written = <<>>
  /\ read = <<>>
  /\ call = <<>>
  /\ hist = NoHistory
  /\ built = [player |-> player.hp, enemy |-> enemy.hp]
  /\ subscribers = <<>>
  /\ notified = <<>>
  /\ \E p \in { NewObject({}) } : stats = [player |-> p, enemy |-> NewObject({p})]
  /\ invoked = Did("CharacterFactory", "None", <<>>)

\* EventBus.subscribe
BusSubscribe ==
  /\ pc = "unit"
  /\ \E observer \in Observers \ Range(subscribers) :
       /\ subscribers' = Append(subscribers, observer)
       /\ invoked' = Did("EventBus.subscribe", "None", << observer >>)
  /\ published' = <<>>
  /\ notified' = <<>>
  /\ written' = <<>>
  /\ call' = <<>>
  /\ UNCHANGED <<state, player, enemy, turn_based_game, outcome, pc, read, hist,
                 built, stats>>

BusNext ==
  \/ BusSubscribe
  \/ UnitAttackTarget

BusSpec == BusInit /\ [][BusNext]_vars

-----------------------------------------------------------------------------
(* The factory driven directly: create_player and create_enemy called in   *)
(* any order and any number of times, between attacks of the characters    *)
(* they made on each other                                                 *)

FactoryInit ==
  /\ state = "None"
  /\ player = NoCharacter
  /\ enemy = NoCharacter
  /\ turn_based_game = FALSE
  /\ outcome = "None"
  /\ pc = "unit"
  /\ published = <<>>
  /\ written = <<>>
  /\ read = <<>>
  /\ call = <<>>
  /\ hist = NoHistory
  /\ built = [player |-> 0, enemy |-> 0]
  /\ subscribers = << IOObserver >>
  /\ notified = <<>>
  /\ stats = [player |-> 0, enemy |-> 0]
  /\ invoked = Did("main", "None", <<>>)

\* what a call of the factory leaves alone
FactoryFrame ==
  /\ written' = <<>>
  /\ Quiet
  /\ UNCHANGED <<state, turn_based_game, outcome, pc, read, hist>>

\* CharacterFactory.create_player, its result kept as `player`
FactoryCreatePlayer ==
  /\ pc = "unit"
  /\ \E raw \in NameLines :
       /\ player' = CreatePlayer(ConsoleRead(raw))
       /\ invoked' = Did("create_player", "None", << ConsoleRead(raw) >>)
  /\ built' = [built EXCEPT !.player = player'.hp]
  /\ stats' = [stats EXCEPT !.player = NewObject({stats.player, stats.enemy})]
  /\ FactoryFrame
  /\ UNCHANGED enemy

\* CharacterFactory.create_enemy, its result kept as `enemy`
FactoryCreateEnemy ==
  /\ pc = "unit"
  /\ \E enemy_type \in EnemyTypes :
       /\ enemy' = CreateEnemy(enemy_type)
       /\ invoked' = Did("create_enemy", "None", << enemy_type >>)
  /\ built' = [built EXCEPT !.enemy = enemy'.hp]
  /\ stats' = [stats EXCEPT !.enemy = NewObject({stats.player, stats.enemy})]
  /\ FactoryFrame
  /\ UNCHANGED player

\* attack_target between the two characters made last
FactoryAttack ==
  /\ player # NoCharacter
  /\ enemy # NoCharacter
  /\ UnitAttackTarget

FactoryNext ==
  \/ FactoryCreatePlayer
  \/ FactoryCreateEnemy
  \/ FactoryAttack

FactorySpec == FactoryInit /\ [][FactoryNext]_vars

-----------------------------------------------------------------------------
(* Stats driven directly: constructed with any arguments, then its setters *)
(* called with any values                                                  *)

MaxStat == 2

StatsInit ==
  /\ state = "None"
  /\ player = NoCharacter
  /\ enemy = NoCharacter
  /\ turn_based_game = FALSE
  /\ outcome = "None"
  /\ pc = "stats"
  /\ published = <<>>
  /\ written = <<>>
  /\ read = <<>>
  /\ call = <<>>
  /\ hist = NoHistory
  /\ built = [player |-> 0, enemy |-> 0]
  /\ subscribers = << IOObserver >>
  /\ notified = <<>>
  /\ stats = [player |-> 0, enemy |-> 0]
  /\ invoked = Did("main", "None", <<>>)

\* what a step on the Stats leaves alone
StatsFrame ==
  /\ written' = <<>>
  /\ Quiet
  /\ UNCHANGED <<state, enemy, turn_based_game, outcome, pc, read, hist>>

\* Stats(hp, attack, defense), held as the fields of `player`
StatsConstruct ==
  /\ pc = "stats"
  /\ \E hp \in 0..MaxStat, attack \in -MaxStat..MaxStat, defense \in -MaxStat..MaxStat :
       /\ player' = [cls |-> "Stats"] @@ Stats(hp, attack, defense)
       /\ built' = [built EXCEPT !.player = hp]
       /\ invoked' = Did("Stats.__init__", "player", << hp, attack, defense >>)
  /\ stats' = [stats EXCEPT !.player = NewObject({stats.player})]
  /\ StatsFrame

\* stats.hp = value
StatsSetHp ==
  /\ pc = "stats"
  /\ player # NoCharacter
  /\ \E value \in -MaxStat..MaxStat :
       /\ player' = [player EXCEPT !.hp = HpSetter(value)]
       /\ invoked' = Did("Stats.hp", "player", << value >>)
  /\ StatsFrame
  /\ UNCHANGED <<built, stats>>

\* stats.attack = value
StatsSetAttack ==
  /\ pc = "stats"
  /\ player # NoCharacter
  /\ \E value \in -MaxStat..MaxStat :
       \E res \in { AttackSetter(player, value) } :
          /\ player' = res.char
          /\ invoked' = [Did("Stats.attack", "player", << value >>)
                           EXCEPT !.raised = res.raised]
  /\ StatsFrame
  /\ UNCHANGED <<built, stats>>

\* stats.defense = value
StatsSetDefense ==
  /\ pc = "stats"
  /\ player # NoCharacter
  /\ \E value \in -MaxStat..MaxStat :
       \E res \in { DefenseSetter(player, value) } :
          /\ player' = res.char
          /\ invoked' = [Did("Stats.defense", "player", << value >>)
                           EXCEPT !.raised = res.raised]
  /\ StatsFrame
  /\ UNCHANGED <<built, stats>>

StatsNext ==
  \/ StatsConstruct
  \/ StatsSetHp
  \/ StatsSetAttack
  \/ StatsSetDefense

StatsSpec == StatsInit /\ [][StatsNext]_vars

-----------------------------------------------------------------------------
(* Properties *)

Character(role) == IF role = "player" THEN player ELSE enemy

HasEvent(events, type) == \E i \in DOMAIN events : events[i].type = type

CountLines(lines, text) == Cardinality({ i \in DOMAIN lines : lines[i].line = text })

InvalidChoice == "invalid choice, try again!"

EnginePcs == { "loop", "player_turn", "enemy_turn" }

\* C1: over any sequence of take_damage calls, CharacterDied has been published
\* for a character exactly once if its health has reached 0 and never before,
\* so a call on a character already at 0 publishes no second CharacterDied.
C1_DiedPublishedOnce ==
  \A role \in Roles :
    Character(role) # NoCharacter =>
      hist.died[role] = (IF IsDead(Character(role)) THEN 1 ELSE 0)

\* C2: the health of every character is at least 0 and at most the health it
\* was constructed with.
C2_HealthInRange ==
  \A role \in Roles :
    Character(role) # NoCharacter =>
      /\ 0 <= Character(role).hp
      /\ Character(role).hp <= built[role]

\* C2 witness: a hit larger than the health that was left, and the health is 0.
C2_Witness ==
  /\ call # <<>>
  /\ call[1].hp_before > 0
  /\ call[1].amount - Character(call[1].target).defense > call[1].hp_before
  /\ Character(call[1].target).hp = 0

\* C3: after take_damage(amount) on a character of defense d and health h, the
\* health is max(0, h - max(0, amount - d)).
C3_TakeDamageExact ==
  \A i \in DOMAIN call :
    LET c == Character(call[i].target)
    IN c.hp = Max(0, call[i].hp_before - Max(0, call[i].amount - c.defense))

\* C3 witness: a direct call with an amount below the defense, which leaves the
\* health as it was, after an earlier call reduced it.
C3_Witness ==
  /\ pc = "unit"
  /\ call # <<>>
  /\ call[1].amount < Character(call[1].target).defense
  /\ Character(call[1].target).hp = call[1].hp_before
  /\ call[1].hp_before < built[call[1].target]

\* C4: in every matchup the game produces, the player's attack is strictly
\* greater than the enemy's defense and the enemy's attack is strictly greater
\* than the player's defense.
C4_AttackExceedsDefense ==
  (player # NoCharacter /\ enemy # NoCharacter) =>
    /\ player.attack > enemy.defense
    /\ enemy.attack > player.defense

\* C5: whenever the engine's loop is entered, it is eventually left with the
\* player or the enemy not alive, whatever the enemy kind and the offsets drawn.
C5_CombatTerminates ==
  (pc = "loop") ~> (pc = "after" /\ (player.hp <= 0 \/ enemy.hp <= 0))

\* C5 witness: a combat against the Dragon has ended although no attack of the
\* player did any damage.
C5_Witness ==
  /\ pc = "after"
  /\ enemy # NoCharacter
  /\ enemy.name = DragonName
  /\ enemy.hp = built.enemy
  /\ player.hp = 0

\* C6: once CharacterDied has been published in an engine run, the run publishes
\* no AttackStarted and no DamageTaken any more, and nothing follows a
\* CharacterDied within the attack that published it.
C6_StopsAfterDeath ==
  [][ /\ (pc \in EnginePcs /\ (hist.died.player > 0 \/ hist.died.enemy > 0)) =>
           /\ ~HasEvent(published', "AttackStartedEvent")
           /\ ~HasEvent(published', "DamageTakenEvent")
      /\ \A i \in DOMAIN published' :
           published'[i].type = "CharacterDied" => i = Len(published')
    ]_vars

\* C6 witness: the enemy's turn has come after the player's attack killed it,
\* and it published nothing.
C6_Witness ==
  /\ pc = "loop"
  /\ hist.died.enemy = 1
  /\ player.hp > 0
  /\ published = <<>>

\* C7: a Game.start publishes exactly one Welcome, before every other event of
\* the run, and the attackers named by the AttackStarted events that follow
\* alternate, the player first.
C7_WelcomeThenAlternate ==
  [][ /\ HasEvent(published', "WelcomeEvent") =>
           /\ published' = << WelcomeEvent("Hot RPG") >>
           /\ pc = "run"
           /\ hist'.last_attacker = <<>>
      /\ (published' # <<>> \/ pc' \in EnginePcs) => hist'.welcome = 1
      /\ (published' # <<>> /\ ~HasEvent(published', "WelcomeEvent")) =>
           hist.welcome = 1
      /\ \A i \in DOMAIN published' :
           published'[i].type = "AttackStartedEvent" =>
             /\ published'[i].attacker =
                  (IF hist.last_attacker = <<>> THEN player.name
                   ELSE IF hist.last_attacker[1] = player.name THEN enemy.name
                   ELSE player.name)
             /\ published'[i].attacker # published'[i].target
             /\ hist.last_attacker # << published'[i].attacker >>
    ]_vars

\* C7 witness: the player attacks again after the enemy's attack.
C7_Witness ==
  /\ pc = "enemy_turn"
  /\ HasEvent(published, "AttackStartedEvent")
  /\ published[1].attacker = player.name
  /\ player.hp < built.player
  /\ hist.welcome = 1

\* C8: with every offset 0, each hit on the Goblin does 7 and each hit on the
\* player 1; the Goblin is hit at health 40, 33, 26, 19, 12 and dies on the hit
\* at health 5, the player's 6th; the engine takes no turn after that and ends
\* with the player at 95, the Goblin having attacked 5 times.
C8_FixedGoblinFight ==
  (enemy # NoCharacter /\ enemy.name = GoblinName) =>
    /\ \A i \in DOMAIN published :
         published[i].type = "DamageTakenEvent" =>
           published[i].damage = (IF published[i].name = GoblinName THEN 7 ELSE 1)
    /\ \A i \in DOMAIN call :
         /\ call[i].target = "enemy" =>
              /\ call[i].hp_before \in { 40 - 7 * k : k \in 0..5 }
              /\ player.hp = 100 - (40 - call[i].hp_before) \div 7
              /\ HasEvent(published, "CharacterDied") <=> call[i].hp_before = 5
         /\ call[i].target = "player" =>
              /\ enemy.hp = 40 - 7 * (100 - call[i].hp_before + 1)
              /\ call[i].hp_before - 1 = player.hp
              /\ player.hp >= 95
    /\ enemy.hp = 0 => pc # "player_turn"
    /\ (pc = "enemy_turn" /\ enemy.hp = 0) => player.hp = 95
    /\ pc = "after" =>
         /\ enemy.hp = 0
         /\ player.hp = 95
         /\ hist.died = [player |-> 0, enemy |-> 1]

\* C8 witness: the fight against the Goblin is over.
C8_Witness ==
  /\ pc = "after"
  /\ enemy # NoCharacter
  /\ enemy.name = GoblinName
  /\ hist.died.enemy = 1

\* the transition table of the flow states
TableNext(from, choice) ==
  CASE from = "MainMenu" ->
         (IF choice = << <<"1">> >> THEN "CharacterCreation"
          ELSE IF choice = << <<"2">> >> THEN "Exit"
          ELSE "MainMenu")
    [] from = "CharacterCreation" -> "Play"
    [] from = "Play" -> "GameOver"
    [] from = "GameOver" ->
         (IF choice = << <<"1">> >> THEN "MainMenu" ELSE "Exit")
    [] from = "Exit" -> "None"
    [] OTHER -> "None"

\* C9: every handler invocation moves the flow state along the transition table,
\* and the state changes at no other moment (Play stays Play until its handler
\* ends).
C9_FlowFollowsTable ==
  [][ IF state = "Play" /\ pc' # "run"
      THEN state' = "Play"
      ELSE state' = TableNext(state, read') ]_vars

\* C9 witness: the main menu is reached again from the game-over screen and
\* chooses a new game.
C9_Witness ==
  /\ state = "CharacterCreation"
  /\ outcome # "None"
  /\ read = << <<"1">> >>

\* C10: in MainMenu a choice other than "1" and "2" ends the handler normally
\* with one invalid-choice line written, player, enemy, engine and outcome as
\* they were and the flow state MainMenu; the choice "1" leads to
\* CharacterCreation with no invalid-choice line.
C10_InvalidChoiceReprompts ==
  [][ (state = "MainMenu" /\ pc = "run") =>
        /\ Len(read') = 1
        /\ pc' = "run"
        /\ IF read'[1] \notin { <<"1">>, <<"2">> }
           THEN /\ state' = "MainMenu"
                /\ CountLines(written', InvalidChoice) = 1
                /\ UNCHANGED <<player, enemy, turn_based_game, outcome>>
           ELSE /\ CountLines(written', InvalidChoice) = 0
                /\ read'[1] = <<"1">> => state' = "CharacterCreation"
    ]_vars

\* C10 witness: an unknown choice typed in upper case after a game was played.
C10_Witness ==
  /\ state = "MainMenu"
  /\ read = << <<"a">> >>
  /\ outcome = "win"
  /\ CountLines(written, InvalidChoice) = 1

\* C11: when PlayState.run has finished, the engine's loop has been left with
\* the player or the enemy not alive, the flow state is GameOver and the outcome
\* is "win" if the player is alive and "lose" otherwise; while the flow state is
\* GameOver the outcome is set, and it is the outcome of the combat just fought.
C11_PlayEndsInGameOver ==
  /\ invoked.op = "PlayState.run" =>
        /\ state = "GameOver"
        /\ pc = "run"
        /\ hist.welcome = 1
        /\ ~(IsAlive(player) /\ IsAlive(enemy))
        /\ outcome = (IF IsAlive(player) THEN "win" ELSE "lose")
  /\ state = "GameOver" =>
        /\ invoked.op = "PlayState.run"
        /\ outcome \in { "win", "lose" }
        /\ outcome = (IF player.hp > 0 THEN "win" ELSE "lose")

\* C11 witness: PlayState.run has finished a lost combat.
C11_Witness ==
  /\ invoked.op = "PlayState.run"
  /\ state = "GameOver"
  /\ outcome = "lose"
  /\ player.hp = 0
  /\ enemy.hp > 0

\* C12: the step taken in the flow state Exit is ExitGameState.run, which sets
\* the state to None whatever state came before; with the state None the only
\* step is the return of GameContext.run, which invokes no handler (it reads
\* nothing, writes nothing, publishes nothing and leaves the context as it is);
\* after the return there is no step at all.
C12_NoneEndsRun ==
  [][ /\ state = "Exit" =>
           /\ invoked'.op = "ExitGameState.run"
           /\ state' = "None"
           /\ pc' = "run"
      /\ state = "None" =>
           /\ invoked'.op = "GameContext.run"
           /\ state' = "None"
           /\ pc' = "returned"
           /\ read' = <<>>
           /\ written' = <<>>
           /\ published' = <<>>
           /\ UNCHANGED <<player, enemy, turn_based_game, outcome, hist>>
      /\ pc = "returned" => FALSE
    ]_vars

\* C12 witness: GameContext.run has returned after a playthrough, left through
\* the game-over screen and ExitGameState.run.
C12_Witness ==
  /\ pc = "returned"
  /\ state = "None"
  /\ outcome # "None"
  /\ invoked.op = "GameContext.run"

\* C13: a construction of Stats with a negative attack or a negative defense
\* raises an invalid-argument error, and no Stats holds a negative attack or a
\* negative defense.
C13_ConstructionValidates ==
  /\ (invoked.op = "Stats.__init__" /\ (invoked.args[2] < 0 \/ invoked.args[3] < 0)) =>
        invoked.raised = "ValueError"
  /\ (pc = "stats" /\ player # NoCharacter) =>
        (player.attack >= 0 /\ player.defense >= 0)

\* C14: attack_target called on a character that is not alive publishes no
\* event, notifies no observer, calls no take_damage and leaves both characters
\* and everything else as they were.
C14_DeadAttackerNoOp ==
  [][ (invoked'.op = "attack_target" /\ ~IsAlive(Character(invoked'.self))) =>
        /\ published' = <<>>
        /\ notified' = <<>>
        /\ written' = <<>>
        /\ call' = <<>>
        /\ hist'.died = hist.died
        /\ hist'.last_attacker = hist.last_attacker
        /\ hist'.welcome = hist.welcome
        /\ UNCHANGED <<player, enemy, state, outcome, turn_based_game, built,
                       stats, subscribers>>
    ]_vars

\* C14 witness: attack_target was called on a dead character whose target is
\* alive, and the target has the health it was constructed with.
C14_Witness ==
  /\ pc = "unit"
  /\ invoked.op = "attack_target"
  /\ ~IsAlive(Character(invoked.self))
  /\ IsAlive(Character(Other(invoked.self)))
  /\ Character(Other(invoked.self)).hp = built[Other(invoked.self)]

\* C15: an attack_target call by a live attacker publishes, in this order, one
\* AttackStarted with the attacker's and the target's name, one DamageTaken with
\* the target's name, the net damage max(0, raw damage - defense) and the
\* target's health after the hit, and then one CharacterDied with the target's
\* name if the hit brought the target's health from above 0 to 0, and no
\* CharacterDied otherwise; the raw damage is the attacker's attack plus an
\* offset in -2..2.
C15_AttackEvents ==
  (invoked.op = "attack_target" /\ IsAlive(Character(invoked.self))) =>
    LET attacker == Character(invoked.self)
        target == Character(Other(invoked.self))
    IN /\ Len(call) = 1
       /\ call[1].target = Other(invoked.self)
       /\ call[1].amount - attacker.attack \in Offsets
       /\ LET net == Max(0, call[1].amount - target.defense)
              died == call[1].hp_before > 0 /\ target.hp <= 0
          IN /\ net >= 0
             /\ published =
                  << AttackStartedEvent(attacker.name, target.name),
                     DamageTakenEvent(target.name, net, target.hp) >>
                  \o (IF died THEN << CharacterDied(target.name) >> ELSE <<>>)

\* the events an observer was notified of by the last step, in order
RECURSIVE Received(_, _)
Received(calls, observer) ==
  IF calls = <<>> THEN <<>>
  ELSE (IF Head(calls).observer = observer THEN << Head(calls).event >> ELSE <<>>)
       \o Received(Tail(calls), observer)

C17_PlayStartsFresh ==
  [][ /\ (state' = "Play" /\ pc' = "run") =>
           /\ invoked'.op = "CharacterCreationState.run"
           /\ turn_based_game'
           /\ player' = CreatePlayer(read'[1])
           /\ \E enemy_type \in EnemyTypes : enemy' = CreateEnemy(enemy_type)
           /\ IsAlive(player') /\ IsAlive(enemy')
           /\ built' = [player |-> player'.hp, enemy |-> enemy'.hp]
           /\ stats'.player \notin { stats.player, stats.enemy }
           /\ stats'.enemy \notin { stats.player, stats.enemy }
      /\ (state = "Play" /\ pc = "run") =>
           /\ invoked'.op = "Game.start"
           /\ pc' = "loop"
           /\ state' = "Play"
           /\ written' = Writes(Publish(subscribers, GameStart))
    ]_vars

\* C17 witness: PlayState.run is about to be invoked on a playthrough after a
\* lost one, with a live player at full health.
C17_Witness ==
  /\ state = "Play"
  /\ pc = "run"
  /\ outcome = "lose"
  /\ turn_based_game
  /\ player.hp = built.player
  /\ IsAlive(player)
  /\ IsAlive(enemy)

\* C18: every create_player call yields a Player with health 100, attack 10 and
\* defense 5, every create_enemy call an Enemy with the stats of its kind
\* (Goblin 40/6/3, Soldier 60/8/5, Skeleton 30/10/2, Dragon 80/20/10), whatever
\* calls, random draws and attacks came before; the Stats object of the new
\* character is one that no character had before the call, and the other
\* character is left as it was.
C18_FactoryPresets ==
  [][ /\ invoked'.op = "create_player" =>
           /\ player' = [cls |-> "Player", name |-> invoked'.args[1],
                         hp |-> 100, attack |-> 10, defense |-> 5]
           /\ built'.player = 100
           /\ stats'.player \notin { 0, stats.player, stats.enemy }
           /\ enemy' = enemy /\ stats'.enemy = stats.enemy
      /\ invoked'.op = "create_enemy" =>
           /\ enemy'.cls = "Enemy"
           /\ << enemy'.name, enemy'.hp, enemy'.attack, enemy'.defense >> =
                (CASE invoked'.args[1] = "goblin" -> << GoblinName, 40, 6, 3 >>
                   [] invoked'.args[1] = "soldier" -> << SoldierName, 60, 8, 5 >>
                   [] invoked'.args[1] = "skeleton" -> << SkeletonName, 30, 10, 2 >>
                   [] invoked'.args[1] = "dragon" -> << DragonName, 80, 20, 10 >>)
           /\ built'.enemy = enemy'.hp
           /\ stats'.enemy \notin { 0, stats.player, stats.enemy }
           /\ player' = player /\ stats'.player = stats.player
    ]_vars

\* C18 witness: an enemy was made by the factory after attacks had damaged the
\* player and the enemy made before it.
C18_Witness ==
  /\ invoked.op = "create_enemy"
  /\ hist.calls = MaxCalls
  /\ player # NoCharacter
  /\ player.hp < built.player
  /\ enemy.hp = built.enemy
  /\ stats.enemy # stats.player

\* C19: when TurnBasedGame.play has returned, exactly one of the player and
\* the enemy is dead, and exactly one CharacterDied was published since
\* Game.start: one for the dead character, none for the other.
C19_ExactlyOneDead ==
  pc = "after" =>
    /\ IsDead(player) # IsDead(enemy)
    /\ hist.died.player + hist.died.enemy = 1
    /\ hist.died.player = (IF IsDead(player) THEN 1 ELSE 0)
    /\ hist.died.enemy = (IF IsDead(enemy) THEN 1 ELSE 0)

\* C19 witness: play has returned from a combat the player won with the least
\* health a win leaves, the enemy dead and one CharacterDied published.
C19_Witness ==
  /\ pc = "after"
  /\ IsDead(enemy)
  /\ hist.died.enemy = 1
  /\ IsAlive(player)
  /\ player.hp = 5

\* C20: whatever offsets are drawn, a playthrough against a Goblin, a Soldier
\* or a Skeleton ends with the outcome "win" and a playthrough against a Dragon
\* with the outcome "lose".
C20_OutcomeByEnemyKind ==
  invoked.op = "PlayState.run" =>
    outcome = (IF enemy.name = DragonName THEN "lose" ELSE "win")

\* C20 witness: a playthrough against a Soldier that drew the worst offsets
\* every time is won with 5 health left.
C20_Witness ==
  /\ invoked.op = "PlayState.run"
  /\ state = "GameOver"
  /\ enemy.name = SoldierName
  /\ player.hp = 5
  /\ outcome = "win"

====
